---- MODULE Spec2Model ----
(***************************************************************************)
(* A model of the streaming chat client of offline_gpt: the Chat component *)
(* (frontend/src/components/Chat.tsx in its reconnecting version) with its *)
(* WebSocket session, the frame handler, the accumulation of streamed text *)
(* into the message list, the loading watchdog and the reconnection logic. *)
(*                                                                         *)
(* One action is one browser task: an event handler of the component (or a *)
(* timer callback) together with the React re-render it causes and the     *)
(* effect of that re-render (the cleanup and body of the useEffect that    *)
(* depends on selectedModel and initializeWebSocket).                      *)
(*                                                                         *)
(* The WebSocket objects are modelled by what the browser does with them:  *)
(* frames are delivered only in the OPEN state, close() on an OPEN socket  *)
(* completes with the code that was passed, close() on a CONNECTING socket *)
(* fails the connection and its close event carries 1006.                  *)
(*                                                                         *)
(* A submission with an image goes to the one-shot multimodal request of   *)
(* ApiService; its response or failure is a task of its own. Once the      *)
(* component is unmounted its state setters are dropped by React and no    *)
(* effect runs any more, while the sockets and timers it left go on.       *)
(*                                                                         *)
(* The conversation has an id, kept in the component and under             *)
(* 'currentConversationId' in localStorage; clear chat, new chat and the   *)
(* selection of a saved conversation replace it, and the effect on the id  *)
(* loads the history of the new one. The Chat component without            *)
(* reconnection, whose frame handler overwrites the trailing message, is   *)
(* modelled next to the reconnecting one (the Plain definitions).          *)
(***************************************************************************)
EXTENDS Integers, Sequences, FiniteSets, TLC

(* ------------------------------ constants ------------------------------ *)

LOADING_TIMEOUT == 30000
MAX_RECONNECT_ATTEMPTS == 3
WEBSOCKET_TIMEOUT == 5000
BASE_DELAY == 1000
SEND_DELAY == 1000
NORMAL_CLOSURE == 1000
ABNORMAL_CLOSURE == 1006

(* ------------------------------- bounds -------------------------------- *)

MaxSockets == 6      \* WebSocket objects created in one run
MaxUserOps == 2      \* accepted submissions, model and conversation changes in one run
MaxFrames == 3       \* inbound frames handled in one run
MaxRequests == 3     \* ApiService requests started in one run
MaxConnections == 3  \* WebSocket objects created in one run of createWebSocketConnection
MaxPendingSockets == 4  \* WebSocket objects created in one run with fair timers
MaxPendingFrames == 1   \* inbound frames handled in one run with fair timers

(* ------------------------------- inputs -------------------------------- *)

Models == {"m1", "m2"}

\* what is typed into the input, as its characters
UserTexts == {<<"H", "i">>}

\* typed texts for the submissions with an image: empty, blank and not blank
ImageTexts == {<<>>, <<" ">>, <<"H", "i">>}

\* the string made of the given pieces (characters or chunks) in order
RECURSIVE Concat(_)
Concat(texts) == IF texts = <<>> THEN "" ELSE Head(texts) \o Concat(Tail(texts))

Whitespace == {" ", "\t", "\n"}

RECURSIVE TrimStart(_)
TrimStart(cs) ==
  IF cs # <<>> /\ Head(cs) \in Whitespace THEN TrimStart(Tail(cs)) ELSE cs

RECURSIVE TrimEnd(_)
TrimEnd(cs) ==
  IF cs # <<>> /\ cs[Len(cs)] \in Whitespace
    THEN TrimEnd(SubSeq(cs, 1, Len(cs) - 1))
    ELSE cs

\* String.prototype.trim on the characters of a text
Trim(cs) == TrimEnd(TrimStart(cs))

\* the attached image as base64, "" (undefined) when there is none
NoImage == ""
Images == {"aW1n"}

\* message.content of the response of the multimodal request
Answers == {"A cat."}
Chunks == {"He", "llo", "!"}
ErrorTexts == {"boom"}

\* the JSON values of the done field, by type and value
DoneVals == {"absent", "bool:true", "str:true", "num:1", "bool:false"}

\* the three encodings of a set done marker
DoneEncodings == {"bool:true", "str:true", "num:1"}

NoError == "null"
ErrFailedToConnect == "Failed to connect to the server. Please check your network connection."
ErrConnectionLost == "Connection to server was lost. Please refresh the page."
ErrProcess == "Failed to process server response. Please try again."
ErrTimeout == "Request timed out. Please try again."
ErrSelectModel == "Please select a model first"
ErrSend == "Failed to send message. Please try again."
ErrNewChat == "Failed to create a new conversation"
ErrSelectConversation == "Failed to load conversation"
ErrLoadHistory == "Failed to load conversation history. Please try again."

\* conversation ids: 0 stands for no id; uuidv4() in the n-th user operation
\* (0: the first render) gives an id no other call gives, and so does the
\* backend for the n-th operation when it creates a conversation
NoId == 0
Uuid(n) == n + 1
ServerId(n) == 200 + n

\* the conversations the sidebar lists, and the messages the backend has
\* stored for a conversation (none for an id it has never seen)
SavedConversations == {101, 102}
History(id) ==
  IF id = 101
    THEN <<[role |-> "user", content |-> "Q"], [role |-> "assistant", content |-> "A"]>>
    ELSE <<>>

\* the status texts a frame may carry
StatusTexts == {"loading"}

\* an inbound frame: the fields of the parsed payload the handler looks at,
\* and the status field, which it does not look at; malformed is a payload
\* JSON.parse (or the handler body) throws on
Frames ==
  [malformed : {FALSE}, error : {""}, status : {""}, content : {""} \cup Chunks,
   done : DoneVals]
  \cup [malformed : {FALSE}, error : ErrorTexts, status : {""}, content : {"", "He"},
         done : {"absent", "bool:true"}]
  \cup [malformed : {FALSE}, error : {""}, status : StatusTexts, content : {"", "He"},
         done : {"absent", "bool:true"}]
  \cup [malformed : {TRUE}, error : {""}, status : {""}, content : {""},
         done : {"absent"}]

NoFrame ==
  [malformed |-> FALSE, error |-> "", status |-> "", content |-> "", done |-> "absent"]

(* -------------------------------- state -------------------------------- *)

VARIABLES
  messages,             \* useState<Message[]>: sequence of [role, content]
  isLoading,            \* useState(false): the pending flag
  error,                \* useState<string | null>
  selectedModel,        \* useState: "" when no model is selected
  connectionAttempts,   \* useState(0)
  ws,                   \* useRef<WebSocket | null>: a socket id, 0 for null
  sockets,              \* the WebSocket objects the component created
  nextSock,             \* number of WebSocket objects created so far
  loadingTimeoutRef,    \* the watchdog: 0 for null, else the submission it was armed for
  reconnectTimeoutRef,  \* 0 for null, else the socket whose close armed the timer
  backoff,              \* the armed backoff timers
  sendTimers,           \* the armed delayed sends of handleSendMessage
  requests,             \* the one-shot requests of ApiService in flight
  mounted,              \* the component is mounted
  conversationId,       \* useState<string>: the id of the current conversation
  storedId,             \* localStorage 'currentConversationId', 0 when absent
  nextSub,              \* number of submissions accepted so far
  nFrames,              \* number of frames handled so far
  nUser,                \* number of accepted user operations so far
  origin,               \* history: per message, the submissions its text was generated for
  turn,                 \* history: what happened since the last accepted submission
  last                  \* history: the operation that made the last step

vars ==
  <<messages, isLoading, error, selectedModel, connectionAttempts, ws, sockets,
    nextSock, loadingTimeoutRef, reconnectTimeoutRef, backoff, sendTimers,
    requests, mounted, conversationId, storedId, nextSub, nFrames, nUser,
    origin, turn, last>>

SockIds == 1..MaxSockets

\* a handler may create two sockets before its guard on MaxSockets is decided
SockSlots == 1..(MaxSockets + 2)

\* a WebSocket object: its readyState, the connectionAttempts and selectedModel
\* its handlers closed over, the code of its close event once that is decided,
\* and the requests the backend received on it and has not finished answering
NoSocket ==
  [readyState |-> "NONE", attempts |-> 0, model |-> "", code |-> 0, reqs |-> <<>>,
   timer |-> FALSE]

\* a closed socket delivers no further event, and its connection timeout, if
\* still armed, does nothing: nothing of it matters any more
ClosedSocket == [NoSocket EXCEPT !.readyState = "CLOSED"]

\* history of the current submission: its number, text and kind, the messages
\* when it was accepted, the texts of the frames handled since, whether a done
\* marker was handled since, whether only plain frames came (and no delta
\* after done), whether the trailing message was finalized, whether a done or
\* error frame sent for this very submission was handled, and how often its
\* watchdog fired
NoTurn ==
  [sub |-> 0, text |-> "", image |-> FALSE, base |-> <<>>, chunks |-> <<>>,
   done |-> FALSE, clean |-> FALSE, finalized |-> FALSE, terminal |-> FALSE,
   timeouts |-> 0, op |-> 0, conv |-> 0]

\* the request a submission sends on the WebSocket: the plain messages (role
\* and content), the model and the conversation id
Payload(model, msgs, userMessage, conv) ==
  [model |-> model, messages |-> Append(msgs, userMessage), conversation_id |-> conv]

\* nothing was sent
NoPayload == [model |-> "", messages |-> <<>>, conversation_id |-> 0]

\* what a submission was called with: the typed text and the attached image
Input(text, image) == [text |-> text, image |-> image]

NoInput == Input(<<>>, "")

\* the handler that ran last: its payload is the request it sent, its input
\* what the user submitted; code is the code of a close event, or the
\* submission a watchdog or a one-shot response belongs to
Event(op, f, code, ok) ==
  [op |-> op, frame |-> f, code |-> code, accepted |-> ok, payload |-> NoPayload,
   input |-> NoInput]

\* a state setter of the component: React drops it once the component is
\* unmounted
SetState(old, new) == IF mounted THEN new ELSE old

(* ------------------------- the session context ------------------------- *)

\* the refs and objects a handler changes while it runs, as one value, so that
\* the calls a handler makes can be applied one after the other
Ctx ==
  [ws |-> ws, sockets |-> sockets, nextSock |-> nextSock, backoff |-> backoff,
   rref |-> reconnectTimeoutRef, lref |-> loadingTimeoutRef]

SetCtx(c) ==
  /\ ws' = c.ws
  /\ sockets' = c.sockets
  /\ nextSock' = c.nextSock
  /\ backoff' = c.backoff
  /\ reconnectTimeoutRef' = c.rref
  /\ loadingTimeoutRef' = c.lref

\* WebSocket.close(code): completes with that code on an OPEN socket, fails
\* the connection (1006) on a CONNECTING one, does nothing otherwise
CloseSocket(socks, s, arg) ==
  IF socks[s].readyState = "OPEN"
    THEN [socks EXCEPT ![s].readyState = "CLOSING", ![s].code = arg]
  ELSE IF socks[s].readyState = "CONNECTING"
    THEN [socks EXCEPT ![s].readyState = "CLOSING", ![s].code = ABNORMAL_CLOSURE]
  ELSE socks

\* clearTimeout(reconnectTimeoutRef.current); reconnectTimeoutRef.current = null
ClearReconnect(c) ==
  IF c.rref # 0
    THEN [c EXCEPT !.backoff = {t \in c.backoff : t.sock # c.rref}, !.rref = 0]
    ELSE c

\* createWebSocketConnection(): a new WebSocket, connecting, with its
\* connection timeout armed; the handlers of initializeWebSocket close over
\* model and attempts
CreateWebSocketConnection(model, attempts) ==
  [readyState |-> "CONNECTING", attempts |-> attempts, model |-> model, code |-> 0,
   reqs |-> <<>>, timer |-> TRUE]

\* the 'open' listener of createWebSocketConnection: clearTimeout(connectionTimeout)
SocketOpened(sock) == [sock EXCEPT !.readyState = "OPEN", !.timer = FALSE]

\* the connection timeout that closes nothing
TimeoutCallback_NoClose(socks, s) == [socks EXCEPT ![s].timer = FALSE]

\* the callback of the connection timeout of socket s: ws.close() if the
\* socket is still connecting
TimeoutCallback(socks, s) ==
  [(IF socks[s].readyState # "OPEN" /\ socks[s].readyState = "CONNECTING"
      THEN CloseSocket(socks, s, 0)
      ELSE socks) EXCEPT ![s].timer = FALSE]

\* ws.current = initializeWebSocket(), for the callback of the render with
\* the given selectedModel and connectionAttempts
InitializeWebSocket(c, model, attempts) ==
  IF model = "" THEN [c EXCEPT !.ws = 0]
  ELSE
    LET c1 == IF c.ws # 0 /\ c.sockets[c.ws].readyState = "OPEN"
                THEN [c EXCEPT !.sockets = CloseSocket(c.sockets, c.ws, NORMAL_CLOSURE)]
                ELSE c
        c2 == ClearReconnect(c1)
        n == c2.nextSock + 1
    IN [c2 EXCEPT !.nextSock = n,
                  !.ws = n,
                  !.sockets = [c2.sockets EXCEPT ![n] =
                     CreateWebSocketConnection(model, attempts)]]

\* the cleanup that clears the timers and drops ws.current without closing it
EffectCleanup_NoClose(c) ==
  ClearReconnect([c EXCEPT !.ws = 0, !.lref = 0])

\* the cleanup of the model effect: closes ws.current with 1000, clears the
\* watchdog and the reconnect timer
EffectCleanup(c) ==
  LET c1 == IF c.ws # 0
              THEN [c EXCEPT !.sockets = CloseSocket(c.sockets, c.ws, NORMAL_CLOSURE),
                             !.ws = 0]
              ELSE c
      c2 == [c1 EXCEPT !.lref = 0]
  IN ClearReconnect(c2)

\* the cleanup of the model effect followed by its body
EffectRerun(c, model, attempts) ==
  InitializeWebSocket(EffectCleanup(c), model, attempts)

\* the re-render after a handler: the effect runs again when one of its
\* dependencies (selectedModel, initializeWebSocket) changed
Rerender(c, model, attempts) ==
  IF mounted /\ (model # selectedModel \/ attempts # connectionAttempts)
    THEN EffectRerun(c, model, attempts)
    ELSE c

(* ---------------------------- accumulation ----------------------------- *)

\* a done field taken as done only when it is the boolean
IsDone_BooleanOnly(d) == d = "bool:true"

\* const isDone = data.done === true || data.done === "true" || data.done === 1
IsDone(d) == d = "bool:true" \/ d = "str:true" \/ d = "num:1"

\* the append of the updater turned into a replacement of the content
ApplyDelta_Replace(msgs, text) ==
  IF Len(msgs) > 0 /\ msgs[Len(msgs)].role = "assistant"
    THEN [msgs EXCEPT ![Len(msgs)].content = text]
    ELSE Append(msgs, [role |-> "assistant", content |-> text])

\* the setMessages updater of onmessage
ApplyDelta(msgs, text) ==
  IF Len(msgs) > 0 /\ msgs[Len(msgs)].role = "assistant"
    THEN [msgs EXCEPT ![Len(msgs)].content = @ \o text]
    ELSE Append(msgs, [role |-> "assistant", content |-> text])

\* the done branch made an else-branch of the delta branch
DoneBranch_ElseIf(f) == f.content = "" /\ IsDone(f.done)

\* if (isDone) { ... }: the done branch of onmessage runs
DoneBranch(f) == IsDone(f.done)

\* history: the submissions whose text a message holds
OriginDelta(msgs, org, sub) ==
  IF Len(msgs) > 0 /\ msgs[Len(msgs)].role = "assistant"
    THEN [org EXCEPT ![Len(org)] = @ \cup {sub}]
    ELSE Append(org, {sub})

(* ------------------------------- frames -------------------------------- *)

\* the request the backend is answering on socket s (0: none): requests are
\* answered in the order they were received, one at a time
Answering(s) == IF sockets[s].reqs # <<>> THEN Head(sockets[s].reqs) ELSE 0

\* the backend is through with a request once it sent an error or a done marker
Terminal(f) == ~f.malformed /\ (f.error # "" \/ f.done \in DoneEncodings)

\* if (data.error) { ...; return; }: the error branch of onmessage runs
ErrorBranch(f) == f.error # ""

\* the error branch without its return: the delta branch runs after it
MessagesAfterFrame_NoReturn(msgs, f) ==
  IF f.malformed THEN msgs
  ELSE IF f.content # "" THEN ApplyDelta(msgs, f.content)
  ELSE msgs

\* the message list after onmessage handled frame f
MessagesAfterFrame(msgs, f) ==
  IF f.malformed \/ ErrorBranch(f) THEN msgs
  ELSE IF f.content # "" THEN ApplyDelta(msgs, f.content)
  ELSE msgs

\* the error branch without its clearTimeout
WatchdogAfterFrame_DoneOnly(ref, f) ==
  IF f.malformed \/ (~ErrorBranch(f) /\ DoneBranch(f)) THEN 0 ELSE ref

\* loadingTimeoutRef.current after onmessage handled frame f: the error
\* branch, the done branch and the catch clear the timer
WatchdogAfterFrame(ref, f) ==
  IF f.malformed \/ ErrorBranch(f) \/ DoneBranch(f) THEN 0 ELSE ref

\* isLoading after onmessage handled frame f
LoadingAfterFrame(loading, f) ==
  IF f.malformed \/ ErrorBranch(f) \/ DoneBranch(f) THEN FALSE ELSE loading

\* the handler with a frame it has no branch for taken as a failure
ErrorAfterFrame_Unrecognized(err, f) ==
  IF f.malformed THEN ErrProcess
  ELSE IF ErrorBranch(f) THEN "Server error: " \o f.error
  ELSE IF f.content = "" /\ ~DoneBranch(f) THEN ErrProcess
  ELSE err

\* the surfaced error after onmessage handled frame f
ErrorAfterFrame(err, f) ==
  IF f.malformed THEN ErrProcess
  ELSE IF ErrorBranch(f) THEN "Server error: " \o f.error
  ELSE err

TurnAfterFrame(s, f) ==
  LET own == turn.sub > 0 /\ Answering(s) = turn.sub
      t == IF f.malformed THEN [turn EXCEPT !.clean = FALSE]
           ELSE IF f.error # "" THEN [turn EXCEPT !.clean = FALSE, !.finalized = TRUE]
           ELSE [turn EXCEPT
                   !.chunks = IF f.content # "" THEN Append(@, f.content) ELSE @,
                   !.clean = @ /\ ~(turn.done /\ f.content # ""),
                   !.done = @ \/ f.done \in DoneEncodings,
                   !.finalized = f.done \in DoneEncodings \/ (@ /\ f.content = "")]
  IN [t EXCEPT !.terminal = @ \/ (own /\ Terminal(f))]

\* newWs.onmessage, for a frame delivered on socket s
OnMessage(s, f) ==
  /\ sockets[s].readyState = "OPEN"
  /\ nFrames < MaxFrames
  /\ nFrames' = nFrames + 1
  /\ messages' = SetState(messages, MessagesAfterFrame(messages, f))
  /\ origin' = IF mounted /\ MessagesAfterFrame(messages, f) # messages
                 THEN OriginDelta(messages, origin, Answering(s))
                 ELSE origin
  /\ isLoading' = SetState(isLoading, LoadingAfterFrame(isLoading, f))
  /\ error' = SetState(error, ErrorAfterFrame(error, f))
  /\ loadingTimeoutRef' = WatchdogAfterFrame(loadingTimeoutRef, f)
  /\ sockets' = IF Terminal(f) /\ sockets[s].reqs # <<>>
                  THEN [sockets EXCEPT ![s].reqs = Tail(@)]
                  ELSE sockets
  /\ turn' = TurnAfterFrame(s, f)
  /\ last' = Event("frame", f, 0, TRUE)
  /\ UNCHANGED <<selectedModel, connectionAttempts, ws, nextSock,
                 reconnectTimeoutRef, backoff, sendTimers, requests, mounted,
                 nextSub, nUser, conversationId, storedId>>

(* ----------------------------- submissions ----------------------------- *)

\* the disabled prop Chat passes to ChatInput
Disabled == isLoading \/ selectedModel = ""

\* the guard of ChatInput without its test of disabled
InputAccepts_IgnoreDisabled(text, image, disabled) ==
  Trim(text) # <<>> \/ image # NoImage

\* the guard of ChatInput with the text tested as it was typed
InputAccepts_NoTrim(text, image, disabled) ==
  (text # <<>> \/ image # NoImage) /\ ~disabled

\* ChatInput.handleSendMessage lets the call through (the same test of the
\* text and the image opens Chat.handleSendMessage)
InputAccepts(text, image, disabled) ==
  (Trim(text) # <<>> \/ image # NoImage) /\ ~disabled

\* the user message shown for a submission
UserMessage(content, image) ==
  [role |-> "user",
   content |-> IF image # NoImage THEN content \o " [Image attached]" ELSE content]

TextPart(content) == [type |-> "text", text |-> content, url |-> ""]

ImagePart(image) ==
  [type |-> "image_url", text |-> "", url |-> "data:image/jpeg;base64," \o image]

\* the content parts with the text part pushed whatever the text is
ContentParts_AlwaysText(text, image) ==
  <<TextPart(Concat(text)), ImagePart(image)>>

\* the content parts of the last message of the multimodal request
ContentParts(text, image) ==
  (IF Trim(text) # <<>> THEN <<TextPart(Concat(text))>> ELSE <<>>)
    \o <<ImagePart(image)>>

\* the request id under which an ApiService method registers its cancel token:
\* `history-${conversationId}`, 'createConversation', 'fetchModels',
\* `multimodal-chat-${Date.now()}`
RequestId(kind, id, conv) ==
  IF kind \in {"loadHistory", "selectConversation"} THEN <<"history", conv>>
  ELSE IF kind = "newChat" THEN <<"createConversation", 0>>
  ELSE IF kind = "fetchModels" THEN <<"fetchModels", 0>>
  ELSE <<"multimodal-chat", id>>

\* a one-shot request in flight: the user operation that made it, the
\* submission it belongs to (0: none), the content parts of its last message,
\* the conversation id it carries, and the selectedModel and
\* connectionAttempts its continuation closed over
Request(kind, id, sub, parts, conv) ==
  [kind |-> kind, id |-> id, sub |-> sub, parts |-> parts, conv |-> conv,
   model |-> selectedModel, attempts |-> connectionAttempts,
   requestId |-> RequestId(kind, id, conv), registered |-> TRUE, canceled |-> FALSE]

\* this.cancelTokens: an entry of the map always belongs to a request in
\* flight (every completion deletes the entry of its own request id), so the
\* map is the set of the requests in flight whose token it holds
CancelTokens(reqs) == {r \in reqs : r.registered}

\* source.cancel(...) and this.cancelTokens.delete(id) for one entry
CancelEntry(r) == [r EXCEPT !.canceled = TRUE, !.registered = FALSE]

\* removeCancelToken(requestId), called by a request that has left reqs:
\* the entry under requestId is deleted, whoever it belongs to
RemoveCancelToken(reqs, rid) ==
  {IF r.requestId = rid THEN [r EXCEPT !.registered = FALSE] ELSE r : r \in reqs}

\* getCancelToken(requestId) up to its creation of the new source: an entry
\* under the same id is canceled and deleted
GetCancelToken(reqs, rid) ==
  {IF r.requestId = rid /\ r.registered THEN CancelEntry(r) ELSE r : r \in reqs}

\* an ApiService method up to its await: the token of request r is registered
\* and the request is sent
StartRequest(reqs, r) == GetCancelToken(reqs, r.requestId) \cup {r}

\* the requests of new, at most one, started
StartRequests(reqs, new) ==
  IF new = {} THEN reqs ELSE StartRequest(reqs, CHOOSE r \in new : TRUE)

\* the try or the catch of an ApiService method after its await: request r is
\* over and its request id is removed from the map
CompleteRequest(reqs, r) == RemoveCancelToken(reqs \ {r}, r.requestId)

\* cancelAllRequests(): every entry of the map is canceled and deleted
CancelAllRequests(reqs) ==
  {IF r.registered THEN CancelEntry(r) ELSE r : r \in reqs}

\* the write to localStorage left out
StoreId_Skipped(stored, id) == stored

\* localStorage.setItem('currentConversationId', id): the stored id after it
StoreId(stored, id) == id

\* the effect that depends on conversationId: after a render with a new id it
\* asks for the history of that id
LoadHistory(id, conv, newConv) ==
  IF mounted /\ newConv # conv
    THEN {Request("loadHistory", id, 0, <<>>, newConv)}
    ELSE {}

\* ws.current.send(JSON.stringify(payload)) on socket s
Send(socks, s, sub) == [socks EXCEPT ![s].reqs = Append(@, sub)]

\* Chat.handleSendMessage, called from ChatInput with the typed text and the
\* attached image
HandleSendMessage(text, image) ==
  IF ~InputAccepts(text, image, Disabled)
    THEN /\ mounted
         /\ last' = [Event("submit", NoFrame, 0, FALSE) EXCEPT
                       !.input = Input(text, image)]
         /\ UNCHANGED <<messages, isLoading, error, selectedModel, connectionAttempts,
                        ws, sockets, nextSock, loadingTimeoutRef, reconnectTimeoutRef,
                        backoff, sendTimers, requests, mounted, nextSub, nFrames,
                        nUser, origin, turn, conversationId, storedId>>
    ELSE
      LET sub == nextSub + 1
          content == Concat(text)
          c1 == [Ctx EXCEPT !.lref = sub]
          rest == image # NoImage
          open == ws # 0 /\ sockets[ws].readyState = "OPEN"
          c2 == IF rest THEN c1
                ELSE IF open
                  THEN [c1 EXCEPT !.sockets = Send(c1.sockets, ws, sub)]
                  ELSE Rerender(InitializeWebSocket(c1, selectedModel, connectionAttempts),
                                selectedModel, 0)
      IN /\ mounted
         /\ nUser < MaxUserOps
         /\ nUser' = nUser + 1
         /\ c2.nextSock <= MaxSockets
         /\ nextSub' = sub
         /\ error' = NoError
         /\ messages' = Append(messages, UserMessage(content, image))
         /\ origin' = Append(origin, {})
         /\ isLoading' = TRUE
         /\ connectionAttempts' = IF rest \/ open THEN connectionAttempts ELSE 0
         /\ sendTimers' = IF rest \/ open THEN sendTimers
                          ELSE sendTimers \cup
                                 {[sub |-> sub, delay |-> SEND_DELAY,
                                   payload |-> Payload(selectedModel, messages,
                                                       UserMessage(content, image),
                                                       conversationId)]}
         /\ requests' = IF rest
                          THEN StartRequest(requests,
                                 Request("multimodal", nUser + 1, sub,
                                         ContentParts(text, image), conversationId))
                          ELSE requests
         /\ SetCtx(c2)
         /\ storedId' = StoreId(storedId, conversationId)
         /\ turn' = [NoTurn EXCEPT
                       !.sub = sub, !.text = content, !.image = rest,
                       !.base = Append(messages, UserMessage(content, image)),
                       !.clean = TRUE, !.op = nUser + 1, !.conv = conversationId]
         /\ last' = [Event("submit", NoFrame, 0, TRUE) EXCEPT
                       !.input = Input(text, image),
                       !.payload = IF ~rest /\ open
                                     THEN Payload(selectedModel, messages,
                                                  UserMessage(content, image),
                                                  conversationId)
                                     ELSE NoPayload]
         /\ UNCHANGED <<selectedModel, nFrames, mounted, conversationId>>

\* the response accumulated into the trailing assistant message
AppendResponse_Merge(msgs, content) == ApplyDelta(msgs, content)

\* setMessages(prevMessages => [...prevMessages, {role: 'assistant', ...}])
AppendResponse(msgs, content) ==
  Append(msgs, [role |-> "assistant", content |-> content])

\* the continuation of handleSendMessage after sendMultimodalChatRequest
\* resolved with message.content = content
MultimodalResponse(r, content) ==
  /\ r \in requests
  /\ r.kind = "multimodal"
  /\ ~r.canceled
  /\ requests' = CompleteRequest(requests, r)
  /\ messages' = SetState(messages, AppendResponse(messages, content))
  /\ origin' = SetState(origin, Append(origin, {r.sub}))
  /\ isLoading' = SetState(isLoading, FALSE)
  /\ loadingTimeoutRef' = 0
  /\ last' = Event("response", [NoFrame EXCEPT !.content = content], r.sub, TRUE)
  /\ UNCHANGED <<error, selectedModel, connectionAttempts, ws, sockets, nextSock,
                 reconnectTimeoutRef, backoff, sendTimers, mounted, nextSub, nFrames,
                 nUser, turn, conversationId, storedId>>

\* the catch of handleSendMessage after sendMultimodalChatRequest rejected
MultimodalFailure(r) ==
  /\ r \in requests
  /\ r.kind = "multimodal"
  /\ requests' = CompleteRequest(requests, r)
  /\ isLoading' = SetState(isLoading, FALSE)
  /\ error' = SetState(error, ErrSend)
  /\ loadingTimeoutRef' = 0
  /\ last' = Event("response", NoFrame, r.sub, FALSE)
  /\ UNCHANGED <<messages, selectedModel, connectionAttempts, ws, sockets, nextSock,
                 reconnectTimeoutRef, backoff, sendTimers, mounted, nextSub, nFrames,
                 nUser, origin, turn, conversationId, storedId>>

\* the callback of the setTimeout(..., 1000) of handleSendMessage
DelayedSend(t) ==
  /\ t \in sendTimers
  /\ sendTimers' = sendTimers \ {t}
  /\ sockets' = IF ws # 0 /\ sockets[ws].readyState = "OPEN"
                  THEN Send(sockets, ws, t.sub)
                  ELSE sockets   \* throw new Error(...): uncaught in the timer task
  /\ last' = [Event("delayedSend", NoFrame, 0,
                     ws # 0 /\ sockets[ws].readyState = "OPEN") EXCEPT
                !.payload = IF ws # 0 /\ sockets[ws].readyState = "OPEN"
                              THEN t.payload
                              ELSE NoPayload]
  /\ UNCHANGED <<messages, isLoading, error, selectedModel, connectionAttempts, ws,
                 nextSock, loadingTimeoutRef, reconnectTimeoutRef, backoff,
                 requests, mounted, nextSub, nFrames, nUser, origin, turn,
                 conversationId, storedId>>

\* the callback of the watchdog armed by handleSendMessage
WatchdogFire ==
  /\ loadingTimeoutRef # 0
  /\ isLoading' = SetState(isLoading, FALSE)
  /\ error' = SetState(error, ErrTimeout)
  /\ loadingTimeoutRef' = 0
  /\ turn' = IF loadingTimeoutRef = turn.sub
               THEN [turn EXCEPT !.timeouts = @ + 1]
               ELSE turn
  /\ last' = Event("watchdog", NoFrame, loadingTimeoutRef, TRUE)
  /\ UNCHANGED <<messages, selectedModel, connectionAttempts, ws, sockets, nextSock,
                 reconnectTimeoutRef, backoff, sendTimers, requests, mounted,
                 nextSub, nFrames, nUser, origin, conversationId, storedId>>

(* ----------------------------- connections ----------------------------- *)

\* ModelSelector's onModelChange={setSelectedModel}
SetModel(m) ==
  /\ mounted
  /\ m # selectedModel
  /\ nUser < MaxUserOps
  /\ nUser' = nUser + 1
  /\ LET c == Rerender(Ctx, m, connectionAttempts)
     IN /\ c.nextSock <= MaxSockets
        /\ SetCtx(c)
  /\ selectedModel' = m
  /\ last' = Event("setModel", NoFrame, 0, TRUE)
  /\ UNCHANGED <<messages, isLoading, error, connectionAttempts, sendTimers,
                 requests, mounted, nextSub, nFrames, origin, turn,
                 conversationId, storedId>>

\* newWs.onopen
OnOpen(s) ==
  /\ sockets[s].readyState = "CONNECTING"
  /\ LET c0 == [Ctx EXCEPT !.sockets[s] = SocketOpened(@)]
         c == Rerender(c0, selectedModel, 0)
     IN /\ c.nextSock <= MaxSockets
        /\ SetCtx(c)
  /\ error' = SetState(error, NoError)
  /\ connectionAttempts' = SetState(connectionAttempts, 0)
  /\ last' = Event("open", NoFrame, 0, TRUE)
  /\ UNCHANGED <<messages, isLoading, selectedModel, sendTimers, requests, mounted,
                 nextSub, nFrames, nUser, origin, turn, conversationId, storedId>>

BackoffTime(attempts) == BASE_DELAY * 2 ^ attempts

\* the retry decision without its test of the close code
ShouldRetry_AnyCode(code, a) == a < MAX_RECONNECT_ATTEMPTS

\* event.code !== 1000 && connectionAttempts < MAX_RECONNECT_ATTEMPTS
ShouldRetry(code, a) == code # NORMAL_CLOSURE /\ a < MAX_RECONNECT_ATTEMPTS

\* the task that closes socket s: newWs.onerror when the connection failed
\* (failed: the browser fires error before close), then newWs.onclose for a
\* close event with the given code
OnClose(s, code, failed) ==
  LET a == sockets[s].attempts
      retry == ShouldRetry(code, a)
      lost == ~retry /\ a >= MAX_RECONNECT_ATTEMPTS /\ code # NORMAL_CLOSURE
      next == IF retry /\ mounted THEN a + 1 ELSE connectionAttempts
      c0 == [Ctx EXCEPT !.sockets[s] = ClosedSocket]
      c1 == IF retry
              THEN [c0 EXCEPT !.backoff = @ \cup {[sock |-> s, delay |-> BackoffTime(a),
                                                   model |-> sockets[s].model,
                                                   attempts |-> a]},
                              !.rref = s]
              ELSE c0
      c == Rerender(c1, selectedModel, next)
  IN /\ c.nextSock <= MaxSockets
     /\ SetCtx(c)
     /\ isLoading' = SetState(isLoading, FALSE)
     /\ connectionAttempts' = next
     /\ error' = SetState(error, IF lost THEN ErrConnectionLost
                                 ELSE IF failed THEN ErrFailedToConnect
                                 ELSE error)
     /\ last' = Event("close", NoFrame, code, ~failed)
     /\ UNCHANGED <<messages, selectedModel, sendTimers, requests, mounted, nextSub,
                    nFrames, nUser, origin, turn, conversationId, storedId>>

\* the close event of a socket the client closed
CloseEvent(s, failed) ==
  /\ sockets[s].readyState = "CLOSING"
  /\ failed => sockets[s].code # NORMAL_CLOSURE
  /\ OnClose(s, sockets[s].code, failed)

\* the backend or the network closes the connection of s
NetClose(s, code, failed) ==
  /\ \/ sockets[s].readyState = "OPEN"
     \/ sockets[s].readyState = "CONNECTING" /\ code = ABNORMAL_CLOSURE
  /\ failed => code # NORMAL_CLOSURE
  /\ OnClose(s, code, failed)

\* the callback of the backoff timer armed by onclose
BackoffFire(t) ==
  /\ t \in backoff
  /\ LET c0 == [Ctx EXCEPT !.backoff = @ \ {t}]
         c1 == InitializeWebSocket(c0, t.model, t.attempts)
         c == [c1 EXCEPT !.rref = 0]
     IN /\ c.nextSock <= MaxSockets
        /\ SetCtx(c)
  /\ last' = Event("backoff", NoFrame, 0, TRUE)
  /\ UNCHANGED <<messages, isLoading, error, selectedModel, connectionAttempts,
                 sendTimers, requests, mounted, nextSub, nFrames, nUser, origin, turn,
                 conversationId, storedId>>

(* ----------------------- conversation and teardown --------------------- *)

\* the connection timeout of socket s fires, WEBSOCKET_TIMEOUT after the
\* socket was created
ConnectionTimeout(s) ==
  /\ sockets[s].timer
  /\ sockets' = TimeoutCallback(sockets, s)
  /\ last' = Event("connectionTimeout", NoFrame, s, TRUE)
  /\ UNCHANGED <<messages, isLoading, error, selectedModel, connectionAttempts, ws,
                 nextSock, loadingTimeoutRef, reconnectTimeoutRef, backoff, sendTimers,
                 requests, mounted, conversationId, storedId, nextSub, nFrames, nUser,
                 origin, turn>>

\* handleClearChat, behind its button (disabled while loading or with no
\* message)
HandleClearChat ==
  /\ mounted
  /\ ~isLoading /\ messages # <<>>
  /\ nUser < MaxUserOps
  /\ nUser' = nUser + 1
  /\ messages' = <<>>
  /\ origin' = <<>>
  /\ error' = NoError
  /\ turn' = NoTurn
  /\ conversationId' = Uuid(nUser + 1)
  /\ storedId' = StoreId(storedId, Uuid(nUser + 1))
  /\ requests' = StartRequests(requests,
                                LoadHistory(nUser + 1, conversationId, Uuid(nUser + 1)))
  /\ last' = Event("clearChat", NoFrame, 0, TRUE)
  /\ UNCHANGED <<isLoading, selectedModel, connectionAttempts, ws, sockets, nextSock,
                 loadingTimeoutRef, reconnectTimeoutRef, backoff, sendTimers,
                 mounted, nextSub, nFrames>>

\* handleNewChat up to its await of createNewConversation
HandleNewChat ==
  /\ mounted
  /\ nUser < MaxUserOps
  /\ nUser' = nUser + 1
  /\ isLoading' = TRUE
  /\ error' = NoError
  /\ sockets' = IF ws # 0 THEN CloseSocket(sockets, ws, NORMAL_CLOSURE) ELSE sockets
  /\ requests' = StartRequest(requests, Request("newChat", nUser + 1, 0, <<>>, NoId))
  /\ last' = Event("newChat", NoFrame, 0, TRUE)
  /\ UNCHANGED <<messages, selectedModel, connectionAttempts, ws, nextSock,
                 loadingTimeoutRef, reconnectTimeoutRef, backoff, sendTimers,
                 mounted, nextSub, nFrames, origin, turn, conversationId, storedId>>

\* the continuation of handleNewChat after createNewConversation resolved
NewChatResponse(r) ==
  /\ r \in requests
  /\ r.kind = "newChat"
  /\ ~r.canceled
  /\ requests' = StartRequests(CompleteRequest(requests, r),
                                LoadHistory(r.id, conversationId, ServerId(r.id)))
  /\ conversationId' = SetState(conversationId, ServerId(r.id))
  /\ storedId' = StoreId(storedId, ServerId(r.id))
  /\ LET c == Rerender(InitializeWebSocket(Ctx, r.model, r.attempts),
                       selectedModel, 0)
     IN /\ c.nextSock <= MaxSockets
        /\ SetCtx(c)
  /\ messages' = SetState(messages, <<>>)
  /\ origin' = SetState(origin, <<>>)
  /\ connectionAttempts' = SetState(connectionAttempts, 0)
  /\ isLoading' = SetState(isLoading, FALSE)
  /\ turn' = SetState(turn, NoTurn)
  /\ last' = Event("newChatDone", NoFrame, 0, TRUE)
  /\ UNCHANGED <<error, selectedModel, sendTimers, mounted, nextSub, nFrames, nUser>>

\* the catch of handleNewChat after createNewConversation rejected
NewChatFailure(r) ==
  /\ r \in requests
  /\ r.kind = "newChat"
  /\ requests' = CompleteRequest(requests, r)
  /\ error' = SetState(error, ErrNewChat)
  /\ isLoading' = SetState(isLoading, FALSE)
  /\ last' = Event("newChatDone", NoFrame, 0, FALSE)
  /\ UNCHANGED <<messages, selectedModel, connectionAttempts, ws, sockets, nextSock,
                 loadingTimeoutRef, reconnectTimeoutRef, backoff, sendTimers,
                 mounted, nextSub, nFrames, nUser, origin, turn, conversationId, storedId>>

\* handleSelectConversation up to its await of fetchConversationHistory, for
\* a conversation of the sidebar other than the current one
HandleSelectConversation(id) ==
  /\ mounted
  /\ id # conversationId
  /\ nUser < MaxUserOps
  /\ nUser' = nUser + 1
  /\ isLoading' = TRUE
  /\ error' = NoError
  /\ sockets' = IF ws # 0 THEN CloseSocket(sockets, ws, NORMAL_CLOSURE) ELSE sockets
  /\ conversationId' = id
  /\ storedId' = StoreId(storedId, id)
  /\ requests' = StartRequests(
                    StartRequest(requests,
                                 Request("selectConversation", nUser + 1, 0, <<>>, id)),
                    LoadHistory(nUser + 1, conversationId, id))
  /\ last' = Event("selectConversation", NoFrame, 0, TRUE)
  /\ UNCHANGED <<messages, selectedModel, connectionAttempts, ws, nextSock,
                 loadingTimeoutRef, reconnectTimeoutRef, backoff, sendTimers,
                 mounted, nextSub, nFrames, origin, turn>>

\* history: the messages of a loaded history hold no streamed text
NoOrigin(msgs) == [i \in 1..Len(msgs) |-> {}]

\* the continuation of handleSelectConversation after fetchConversationHistory
\* resolved
SelectConversationResponse(r) ==
  /\ r \in requests
  /\ r.kind = "selectConversation"
  /\ ~r.canceled
  /\ requests' = CompleteRequest(requests, r)
  /\ LET c == Rerender(InitializeWebSocket(Ctx, r.model, r.attempts),
                       selectedModel, 0)
     IN /\ c.nextSock <= MaxSockets
        /\ SetCtx(c)
  /\ messages' = SetState(messages, History(r.conv))
  /\ origin' = SetState(origin, NoOrigin(History(r.conv)))
  /\ connectionAttempts' = SetState(connectionAttempts, 0)
  /\ isLoading' = SetState(isLoading, FALSE)
  /\ turn' = SetState(turn, NoTurn)
  /\ last' = Event("selectConversationDone", NoFrame, 0, TRUE)
  /\ UNCHANGED <<error, selectedModel, sendTimers, mounted, conversationId, storedId,
                 nextSub, nFrames, nUser>>

\* the catch of handleSelectConversation after fetchConversationHistory
\* rejected
SelectConversationFailure(r) ==
  /\ r \in requests
  /\ r.kind = "selectConversation"
  /\ requests' = CompleteRequest(requests, r)
  /\ error' = SetState(error, ErrSelectConversation)
  /\ isLoading' = SetState(isLoading, FALSE)
  /\ last' = Event("selectConversationDone", NoFrame, 0, FALSE)
  /\ UNCHANGED <<messages, selectedModel, connectionAttempts, ws, sockets, nextSock,
                 loadingTimeoutRef, reconnectTimeoutRef, backoff, sendTimers,
                 mounted, conversationId, storedId, nextSub, nFrames, nUser, origin,
                 turn>>

\* the continuation of loadHistory after fetchConversationHistory resolved:
\* a history with no message leaves the messages as they are
LoadHistoryResponse(r) ==
  /\ r \in requests
  /\ r.kind = "loadHistory"
  /\ ~r.canceled
  /\ requests' = CompleteRequest(requests, r)
  /\ messages' = IF History(r.conv) # <<>> THEN SetState(messages, History(r.conv))
                 ELSE messages
  /\ origin' = IF History(r.conv) # <<>> THEN SetState(origin, NoOrigin(History(r.conv)))
               ELSE origin
  /\ turn' = IF History(r.conv) # <<>> THEN SetState(turn, NoTurn) ELSE turn
  /\ last' = Event("loadHistoryDone", NoFrame, r.conv, TRUE)
  /\ UNCHANGED <<isLoading, error, selectedModel, connectionAttempts, ws, sockets,
                 nextSock, loadingTimeoutRef, reconnectTimeoutRef, backoff, sendTimers,
                 mounted, conversationId, storedId, nextSub, nFrames, nUser>>

\* the catch of loadHistory after fetchConversationHistory rejected
LoadHistoryFailure(r) ==
  /\ r \in requests
  /\ r.kind = "loadHistory"
  /\ requests' = CompleteRequest(requests, r)
  /\ error' = SetState(error, ErrLoadHistory)
  /\ last' = Event("loadHistoryDone", NoFrame, r.conv, FALSE)
  /\ UNCHANGED <<messages, isLoading, selectedModel, connectionAttempts, ws, sockets,
                 nextSock, loadingTimeoutRef, reconnectTimeoutRef, backoff, sendTimers,
                 mounted, conversationId, storedId, nextSub, nFrames, nUser, origin,
                 turn>>

\* the component unmounts: the cleanup of the model effect runs
Unmount ==
  /\ mounted
  /\ mounted' = FALSE
  /\ SetCtx(EffectCleanup(Ctx))
  /\ last' = Event("unmount", NoFrame, 0, TRUE)
  /\ UNCHANGED <<messages, isLoading, error, selectedModel, connectionAttempts,
                 sendTimers, requests, nextSub, nFrames, nUser, origin, turn,
                 conversationId, storedId>>

(* --------------------------- specifications ---------------------------- *)

\* the component after its first render and effects, with the model read
\* from localStorage
Mounted(model) ==
  /\ messages = <<>>
  /\ isLoading = FALSE
  /\ error = NoError
  /\ selectedModel = model
  /\ connectionAttempts = 0
  /\ ws = IF model = "" THEN 0 ELSE 1
  /\ sockets = [s \in SockSlots |->
                  IF s = 1 /\ model # ""
                    THEN CreateWebSocketConnection(model, 0)
                    ELSE NoSocket]
  /\ nextSock = IF model = "" THEN 0 ELSE 1
  /\ loadingTimeoutRef = 0
  /\ reconnectTimeoutRef = 0
  /\ backoff = {}
  /\ sendTimers = {}
  /\ requests = {}
  /\ mounted = TRUE
  /\ conversationId = Uuid(0)
  /\ storedId = NoId
  /\ nextSub = 0
  /\ nFrames = 0
  /\ origin = <<>>
  /\ turn = NoTurn
  /\ nUser = 0
  /\ last = Event("mount", NoFrame, 0, TRUE)

Init == \E model \in {"", "m1"} : Mounted(model)

Next ==
  \/ \E m \in {""} \cup Models : SetModel(m)
  \/ \E s \in SockIds : OnOpen(s)
  \/ \E s \in SockIds, failed \in BOOLEAN : CloseEvent(s, failed)
  \/ \E s \in SockIds, code \in {NORMAL_CLOSURE, ABNORMAL_CLOSURE}, failed \in BOOLEAN :
        NetClose(s, code, failed)
  \/ \E t \in backoff : BackoffFire(t)
  \/ \E text \in UserTexts : HandleSendMessage(text, NoImage)
  \/ \E t \in sendTimers : DelayedSend(t)
  \/ WatchdogFire

Spec == Init /\ [][Next]_vars

\* the session alone: the connections of a mounted component under model
\* changes, opens, closures and backoff timers, with no submission made
NextSession ==
  \/ \E m \in {""} \cup Models : SetModel(m)
  \/ \E s \in SockIds : OnOpen(s)
  \/ \E s \in SockIds, failed \in BOOLEAN : CloseEvent(s, failed)
  \/ \E s \in SockIds, code \in {NORMAL_CLOSURE, ABNORMAL_CLOSURE}, failed \in BOOLEAN :
        NetClose(s, code, failed)
  \/ \E t \in backoff : BackoffFire(t)

SpecSession == Init /\ [][NextSession]_vars

\* the component mounted with model m1 and its connection open, with the
\* given id found in localStorage (a fresh one is made when there is none)
EstablishedWith(saved, msgs) ==
  /\ messages = msgs
  /\ isLoading = FALSE
  /\ error = NoError
  /\ selectedModel = "m1"
  /\ connectionAttempts = 0
  /\ ws = 1
  /\ sockets = [s \in SockSlots |->
                  IF s = 1
                    THEN [NoSocket EXCEPT !.readyState = "OPEN", !.model = "m1"]
                    ELSE NoSocket]
  /\ nextSock = 1
  /\ loadingTimeoutRef = 0
  /\ reconnectTimeoutRef = 0
  /\ backoff = {}
  /\ sendTimers = {}
  /\ requests = {}
  /\ mounted = TRUE
  /\ conversationId = (IF saved # NoId THEN saved ELSE Uuid(0))
  /\ storedId = saved
  /\ nextSub = 0
  /\ nFrames = 0
  /\ origin = [i \in 1..Len(msgs) |-> {}]
  /\ turn = NoTurn
  /\ nUser = 0
  /\ last = Event("open", NoFrame, 0, TRUE)

\* an established session that shows no message yet
Established(saved) == EstablishedWith(saved, <<>>)

\* streaming on an established session, on the first visit
InitStream == Established(NoId)

NextStream ==
  \/ \E text \in UserTexts : HandleSendMessage(text, NoImage)
  \/ \E s \in SockIds, f \in Frames : OnMessage(s, f)
  \/ WatchdogFire

SpecStream == InitStream /\ [][NextStream]_vars

\* the component until after its teardown: submissions, opens, the close
\* events of the sockets the client closed, timers, and the unmount
NextTeardown ==
  \/ \E s \in SockIds : OnOpen(s)
  \/ \E s \in SockIds, failed \in BOOLEAN : CloseEvent(s, failed)
  \/ \E t \in backoff : BackoffFire(t)
  \/ \E text \in UserTexts : HandleSendMessage(text, NoImage)
  \/ \E t \in sendTimers : DelayedSend(t)
  \/ WatchdogFire
  \/ Unmount

SpecTeardown == Init /\ [][NextTeardown]_vars

\* submissions with and without an image on an established session
NextDispatch ==
  \/ \E text \in ImageTexts, image \in {NoImage} \cup Images :
        HandleSendMessage(text, image)
  \/ \E r \in requests, content \in Answers : MultimodalResponse(r, content)
  \/ \E r \in requests : MultimodalFailure(r)
  \/ WatchdogFire

SpecDispatch == InitStream /\ [][NextDispatch]_vars

\* submissions, new chat and clear chat on an established session
NextConversation ==
  \/ \E text \in UserTexts : HandleSendMessage(text, NoImage)
  \/ HandleClearChat
  \/ HandleNewChat
  \/ \E r \in requests : NewChatResponse(r)
  \/ \E r \in requests : NewChatFailure(r)
  \/ \E s \in SockIds : OnOpen(s)
  \/ \E s \in SockIds, failed \in BOOLEAN : CloseEvent(s, failed)
  \/ \E t \in sendTimers : DelayedSend(t)
  \/ WatchdogFire

SpecConversation == InitStream /\ [][NextConversation]_vars

\* the frames of an answer given in one piece
WholeAnswers == {[NoFrame EXCEPT !.content = "He", !.done = "bool:true"]}

\* the conversation and its id: submissions and their answers, timeouts,
\* model changes, clear chat, new chat and the selection of a saved
\* conversation, with the requests they make
InitIdentity == \E saved \in {NoId, 101} : Established(saved)

NextIdentity ==
  \/ \E text \in UserTexts : HandleSendMessage(text, NoImage)
  \/ \E s \in SockIds, f \in WholeAnswers : OnMessage(s, f)
  \/ WatchdogFire
  \/ \E m \in {"", "m2"} : SetModel(m)
  \/ HandleClearChat
  \/ HandleNewChat
  \/ \E r \in requests : NewChatResponse(r)
  \/ \E r \in requests : NewChatFailure(r)
  \/ \E id \in SavedConversations : HandleSelectConversation(id)
  \/ \E r \in requests : SelectConversationFailure(r)
  \/ \E r \in requests : LoadHistoryResponse(r)
  \/ \E r \in requests : LoadHistoryFailure(r)

SpecIdentity == InitIdentity /\ [][NextIdentity]_vars

\* ApiService on its own: its callers start requests, the requests settle,
\* and cancelAllRequests is called, in every order
ApiRest ==
  <<messages, isLoading, error, selectedModel, connectionAttempts, ws, sockets,
    nextSock, loadingTimeoutRef, reconnectTimeoutRef, backoff, sendTimers,
    mounted, conversationId, storedId, nextSub, nFrames, origin, turn>>

\* fetchModels() up to its await
FetchModels ==
  /\ nUser < MaxRequests
  /\ nUser' = nUser + 1
  /\ requests' = StartRequest(requests, Request("fetchModels", nUser + 1, 0, <<>>, NoId))
  /\ last' = Event("fetchModels", NoFrame, nUser + 1, TRUE)
  /\ UNCHANGED ApiRest

\* fetchConversationHistory(id) up to its await
FetchConversationHistory(id) ==
  /\ nUser < MaxRequests
  /\ nUser' = nUser + 1
  /\ requests' = StartRequest(requests, Request("loadHistory", nUser + 1, 0, <<>>, id))
  /\ last' = Event("fetchConversationHistory", NoFrame, nUser + 1, TRUE)
  /\ UNCHANGED ApiRest

\* the await of an ApiService method ends: a canceled request rejects, another
\* one resolves or rejects, and both paths call removeCancelToken
RequestSettles(r, ok) ==
  /\ r \in requests
  /\ r.canceled => ~ok
  /\ requests' = CompleteRequest(requests, r)
  /\ last' = Event("settle", NoFrame, r.id, ok)
  /\ UNCHANGED <<ApiRest, nUser>>

\* cancelAllRequests()
CancelAll ==
  /\ requests' = CancelAllRequests(requests)
  /\ last' = Event("cancelAllRequests", NoFrame, 0, TRUE)
  /\ UNCHANGED <<ApiRest, nUser>>

NextApi ==
  \/ FetchModels
  \/ \E id \in SavedConversations : FetchConversationHistory(id)
  \/ \E r \in requests, ok \in BOOLEAN : RequestSettles(r, ok)
  \/ CancelAll

SpecApi == InitStream /\ [][NextApi]_vars

\* createWebSocketConnection on its own: its callers create sockets and close
\* them, the sockets open and close, and the connection timeouts fire, in
\* every order
ConnectRest ==
  <<messages, isLoading, error, selectedModel, connectionAttempts, ws,
    loadingTimeoutRef, reconnectTimeoutRef, backoff, sendTimers, requests,
    mounted, conversationId, storedId, nextSub, nFrames, nUser, origin, turn>>

\* a call of createWebSocketConnection()
NewConnection ==
  /\ nextSock < MaxConnections
  /\ nextSock' = nextSock + 1
  /\ sockets' = [sockets EXCEPT ![nextSock + 1] = CreateWebSocketConnection("m1", 0)]
  /\ last' = Event("createWebSocketConnection", NoFrame, nextSock + 1, TRUE)
  /\ UNCHANGED ConnectRest

\* the open event of socket s
SocketOpens(s) ==
  /\ sockets[s].readyState = "CONNECTING"
  /\ sockets' = [sockets EXCEPT ![s] = SocketOpened(@)]
  /\ last' = Event("open", NoFrame, s, TRUE)
  /\ UNCHANGED <<ConnectRest, nextSock>>

\* the caller closes socket s: ws.close(1000)
CallerCloses(s) ==
  /\ sockets[s].readyState \in {"CONNECTING", "OPEN"}
  /\ sockets' = CloseSocket(sockets, s, NORMAL_CLOSURE)
  /\ last' = Event("callerClose", NoFrame, s, TRUE)
  /\ UNCHANGED <<ConnectRest, nextSock>>

\* the close event of socket s, after a close() or from the network
SocketCloses(s) ==
  /\ sockets[s].readyState \in {"CONNECTING", "OPEN", "CLOSING"}
  /\ sockets' = [sockets EXCEPT ![s].readyState = "CLOSED"]
  /\ last' = Event("close", NoFrame, s, TRUE)
  /\ UNCHANGED <<ConnectRest, nextSock>>

NextConnect ==
  \/ NewConnection
  \/ \E s \in 1..MaxConnections : SocketOpens(s)
  \/ \E s \in 1..MaxConnections : CallerCloses(s)
  \/ \E s \in 1..MaxConnections : SocketCloses(s)
  \/ \E s \in 1..MaxConnections : ConnectionTimeout(s)

SpecConnect == Init /\ [][NextConnect]_vars

\* the frames that end an answer: a done marker with text, and an error
EndFrames ==
  WholeAnswers \cup {[NoFrame EXCEPT !.error = "boom"]}

\* the step creates no socket beyond the bound of the runs with fair timers
WithinPending == nextSock' <= MaxPendingSockets

\* pending under fair timers: submissions of text and of images, frames,
\* one-shot responses, model changes, opens, the close events of the sockets
\* the client closed, with the reconnections they schedule, and the timers
NextPending ==
  \/ \E text \in UserTexts, image \in {NoImage} \cup Images :
        HandleSendMessage(text, image) /\ WithinPending
  \/ \E s \in SockIds, f \in EndFrames : OnMessage(s, f) /\ nFrames < MaxPendingFrames
  \/ \E r \in requests, content \in Answers : MultimodalResponse(r, content)
  \/ \E r \in requests : MultimodalFailure(r)
  \/ \E m \in Models : SetModel(m) /\ WithinPending
  \/ \E s \in SockIds : OnOpen(s) /\ WithinPending
  \/ \E s \in SockIds, failed \in BOOLEAN : CloseEvent(s, failed) /\ WithinPending
  \/ \E t \in backoff : BackoffFire(t) /\ WithinPending
  \/ \E t \in sendTimers : DelayedSend(t)
  \/ WatchdogFire

\* what is bound to happen: an armed timer fires (setTimeout), the browser
\* delivers the close event of a socket being closed, and a one-shot request
\* settles at the latest when the timeout of the axios instance rejects it
FairStep ==
  \/ WatchdogFire
  \/ \E t \in sendTimers : DelayedSend(t)
  \/ \E t \in backoff : BackoffFire(t) /\ WithinPending
  \/ \E s \in SockIds, failed \in BOOLEAN : CloseEvent(s, failed) /\ WithinPending
  \/ \E r \in requests : MultimodalFailure(r)

FairPending == WF_vars(FairStep)

SpecPending == Init /\ [][NextPending]_vars /\ FairPending

(* ------------------------------ reactions ------------------------------ *)

\* two of AVAILABLE_REACTIONS
Emojis == {"thumbsup", "heart"}

\* the reactions a message arrives with: none, or a list, which the server
\* may send with a repeated emoji
ReactionLists ==
  {<<>>, <<"thumbsup">>, <<"heart", "thumbsup">>, <<"thumbsup", "thumbsup">>}

\* a Message with its optional fields id and reactions
ReactionMessages ==
  [role : {"assistant"}, content : {"He"}, id : {7}, reactions : ReactionLists]
  \cup [role : {"assistant"}, content : {"He"}, id : {7}]

\* the message lists the reactions are applied to
ReactionInputs ==
  {<<m>> : m \in ReactionMessages}
  \cup {<<m, [role |-> "user", content |-> "Hi", id |-> 8, reactions |-> <<>>]>> :
          m \in ReactionMessages}

\* message.reactions || []
Reactions(m) == IF "reactions" \in DOMAIN m THEN m.reactions ELSE <<>>

\* array.includes(emoji)
Includes(list, emoji) == \E i \in 1..Len(list) : list[i] = emoji

\* {...message, reactions: list}
WithReactions(m, list) ==
  [f \in DOMAIN m \cup {"reactions"} |-> IF f = "reactions" THEN list ELSE m[f]]

\* the list without the first occurrence of emoji only
RECURSIVE RemoveFirst(_, _)
RemoveFirst(list, emoji) ==
  IF list = <<>> THEN <<>>
  ELSE IF Head(list) = emoji THEN Tail(list)
  ELSE <<Head(list)>> \o RemoveFirst(Tail(list), emoji)

\* removeReaction dropping one occurrence
removeReaction_First(m, emoji) ==
  IF Reactions(m) = <<>> THEN m
  ELSE WithReactions(m, RemoveFirst(m.reactions, emoji))

\* reactions.filter(reaction => reaction !== emoji)
Filter(list, emoji) == SelectSeq(list, LAMBDA reaction : reaction # emoji)

addReaction(m, emoji) ==
  IF Includes(Reactions(m), emoji) THEN m
  ELSE WithReactions(m, Append(Reactions(m), emoji))

removeReaction(m, emoji) ==
  IF Reactions(m) = <<>> THEN m
  ELSE WithReactions(m, Filter(m.reactions, emoji))

toggleReaction(m, emoji) ==
  IF Includes(Reactions(m), emoji) THEN removeReaction(m, emoji)
  ELSE addReaction(m, emoji)

\* the setMessages updater of handleToggleReaction of useMessageReactions
handleToggleReaction(msgs, messageIndex, emoji) ==
  [msgs EXCEPT ![messageIndex] =
     IF Includes(Reactions(@), emoji)
       THEN WithReactions(@, Filter(Reactions(@), emoji))
       ELSE WithReactions(@, Append(Reactions(@), emoji))]

\* what a reaction leaves alone
ReactionRest ==
  <<isLoading, error, selectedModel, connectionAttempts, ws, sockets, nextSock,
    loadingTimeoutRef, reconnectTimeoutRef, backoff, sendTimers, requests,
    mounted, conversationId, storedId, nextSub, nFrames, nUser, origin, turn>>

\* the emoji and the index of the message, recorded for a reaction
ReactionEvent(op, i, emoji) == Event(op, [NoFrame EXCEPT !.content = emoji], i, TRUE)

AddReaction(i, emoji) ==
  /\ i \in 1..Len(messages)
  /\ messages' = [messages EXCEPT ![i] = addReaction(@, emoji)]
  /\ last' = ReactionEvent("addReaction", i, emoji)
  /\ UNCHANGED ReactionRest

RemoveReaction(i, emoji) ==
  /\ i \in 1..Len(messages)
  /\ messages' = [messages EXCEPT ![i] = removeReaction(@, emoji)]
  /\ last' = ReactionEvent("removeReaction", i, emoji)
  /\ UNCHANGED ReactionRest

ToggleReaction(i, emoji) ==
  /\ i \in 1..Len(messages)
  /\ messages' = [messages EXCEPT ![i] = toggleReaction(@, emoji)]
  /\ last' = ReactionEvent("toggleReaction", i, emoji)
  /\ UNCHANGED ReactionRest

\* handleToggleReaction for a message of the list
HandleToggleReaction(i, emoji) ==
  /\ i \in 1..Len(messages)
  /\ messages' = handleToggleReaction(messages, i, emoji)
  /\ last' = ReactionEvent("handleToggleReaction", i, emoji)
  /\ UNCHANGED ReactionRest

\* the frames of a streamed answer
StreamFrames ==
  {[NoFrame EXCEPT !.content = "llo"], [NoFrame EXCEPT !.done = "bool:true"]}

\* reactions on the messages of an established session, while an answer streams
InitReactions == \E msgs \in ReactionInputs : EstablishedWith(NoId, msgs)

NextReactions ==
  \/ \E i \in 1..2, emoji \in Emojis : AddReaction(i, emoji)
  \/ \E i \in 1..2, emoji \in Emojis : RemoveReaction(i, emoji)
  \/ \E i \in 1..2, emoji \in Emojis : ToggleReaction(i, emoji)
  \/ \E i \in 1..2, emoji \in Emojis : HandleToggleReaction(i, emoji)
  \/ \E s \in SockIds, f \in StreamFrames : OnMessage(s, f)

SpecReactions == InitReactions /\ [][NextReactions]_vars

(* ----------------- the Chat component without reconnection ------------- *)

\* the setMessages updater of the onmessage of the plain Chat component: the
\* content of a trailing assistant message becomes the text of the frame
PlainApplyDelta(msgs, text) ==
  IF Len(msgs) > 0 /\ msgs[Len(msgs)].role = "assistant"
    THEN SubSeq(msgs, 1, Len(msgs) - 1) \o <<[msgs[Len(msgs)] EXCEPT !.content = text]>>
    ELSE msgs \o <<[role |-> "assistant", content |-> text]>>

\* the frame reaches the setMessages of the plain component: it parses, has
\* no error field and has a message.content
PlainDelta(f) == ~f.malformed /\ f.error = "" /\ f.content # ""

\* ws.current.onmessage of the plain Chat component, for a frame delivered on
\* socket s: no watchdog, no surfaced error, the done field is not looked at
PlainOnMessage(s, f) ==
  /\ sockets[s].readyState = "OPEN"
  /\ nFrames < MaxFrames
  /\ nFrames' = nFrames + 1
  /\ messages' = IF PlainDelta(f) THEN PlainApplyDelta(messages, f.content) ELSE messages
  /\ origin' = IF PlainDelta(f) THEN OriginDelta(messages, origin, Answering(s)) ELSE origin
  /\ isLoading' = IF PlainDelta(f) THEN FALSE ELSE isLoading
  /\ sockets' = IF Terminal(f) /\ sockets[s].reqs # <<>>
                  THEN [sockets EXCEPT ![s].reqs = Tail(@)]
                  ELSE sockets
  /\ turn' = TurnAfterFrame(s, f)
  /\ last' = Event("frame", f, 0, TRUE)
  /\ UNCHANGED <<error, selectedModel, connectionAttempts, ws, nextSock,
                 loadingTimeoutRef, reconnectTimeoutRef, backoff, sendTimers,
                 requests, mounted, nextSub, nUser, conversationId, storedId>>

\* handleSendMessage of the plain Chat component, called from ChatInput
\* (disabled while loading) with the typed text
PlainHandleSendMessage(text) ==
  IF ~InputAccepts(text, NoImage, isLoading) \/ selectedModel = ""
    THEN /\ last' = [Event("submit", NoFrame, 0, FALSE) EXCEPT
                       !.input = Input(text, NoImage)]
         /\ UNCHANGED <<messages, isLoading, error, selectedModel, connectionAttempts,
                        ws, sockets, nextSock, loadingTimeoutRef, reconnectTimeoutRef,
                        backoff, sendTimers, requests, mounted, nextSub, nFrames,
                        nUser, origin, turn, conversationId, storedId>>
    ELSE
      LET sub == nextSub + 1
          content == Concat(text)
          open == ws # 0 /\ sockets[ws].readyState = "OPEN"
      IN /\ nUser < MaxUserOps
         /\ nUser' = nUser + 1
         /\ nextSub' = sub
         /\ messages' = Append(messages, UserMessage(content, NoImage))
         /\ origin' = Append(origin, {})
         /\ isLoading' = open
         /\ sockets' = IF open THEN Send(sockets, ws, sub) ELSE sockets
         /\ storedId' = StoreId(storedId, conversationId)
         /\ turn' = [NoTurn EXCEPT
                       !.sub = sub, !.text = content,
                       !.base = Append(messages, UserMessage(content, NoImage)),
                       !.clean = TRUE, !.op = nUser + 1, !.conv = conversationId]
         /\ last' = [Event("submit", NoFrame, 0, TRUE) EXCEPT
                       !.input = Input(text, NoImage),
                       !.payload = IF open
                                     THEN Payload(selectedModel, messages,
                                                  UserMessage(content, NoImage),
                                                  conversationId)
                                     ELSE NoPayload]
         /\ UNCHANGED <<error, selectedModel, connectionAttempts, ws, nextSock,
                        loadingTimeoutRef, reconnectTimeoutRef, backoff, sendTimers,
                        requests, mounted, nFrames, conversationId>>

\* the plain Chat component streaming on its open connection, model m1 selected
NextPlain ==
  \/ \E text \in UserTexts : PlainHandleSendMessage(text)
  \/ \E s \in SockIds, f \in Frames : PlainOnMessage(s, f)

SpecPlain == InitStream /\ [][NextPlain]_vars

(* ------------------------- claims: streaming --------------------------- *)

LastMessage == messages[Len(messages)]

\* the frame of the last step is a well-formed frame without an error field
LastIsPlainFrame == last.op = "frame" /\ ~last.frame.malformed /\ last.frame.error = ""

\* C1: a text submission followed by N >= 1 delta frames and a done frame, and
\* by nothing else, leaves the messages as they were when the submission was
\* accepted (the user message last) plus exactly one assistant message whose
\* content is the concatenation of the delta texts in receipt order. A delta
\* frame is a frame the handler reads a text from: one with a non-empty
\* message.content.
C1_AppendOnlyStreaming ==
  (turn.clean /\ turn.done /\ Len(turn.chunks) >= 1)
    => messages = Append(turn.base, [role |-> "assistant", content |-> Concat(turn.chunks)])

C1_Witness ==
  /\ turn.clean /\ turn.done
  /\ turn.chunks = <<"He", "llo", "He">>
  /\ last.op = "frame"
  /\ Len(messages) = 2

\* C2: after a frame that carries both message.content and a done marker the
\* text is in the trailing assistant message, pending is false and no watchdog
\* is armed; in the scenario submit "Hi" with model "m1", frames "He", "llo",
\* {"!", done: true}, the assistant content is "Hello!".
C2_DeltaWithDone ==
  (LastIsPlainFrame /\ last.frame.content # "" /\ last.frame.done \in DoneEncodings)
    => /\ ~isLoading
       /\ loadingTimeoutRef = 0
       /\ Len(messages) > 0
       /\ LastMessage.role = "assistant"
       /\ turn.clean => LastMessage.content = Concat(turn.chunks)
       /\ (/\ turn.clean /\ turn.text = "Hi" /\ selectedModel = "m1"
           /\ turn.chunks = <<"He", "llo", "!">> /\ last.frame.content = "!")
          => messages = Append(turn.base, [role |-> "assistant", content |-> "Hello!"])

C2_Witness ==
  /\ LastIsPlainFrame /\ last.frame.content = "!" /\ last.frame.done = "bool:true"
  /\ turn.clean /\ turn.text = "Hi" /\ selectedModel = "m1"
  /\ turn.chunks = <<"He", "llo", "!">>
  /\ messages = <<[role |-> "user", content |-> "Hi"],
                  [role |-> "assistant", content |-> "Hello!"]>>

\* the message list after a text was accumulated into it
Accumulated(msgs, text) ==
  IF msgs # <<>> /\ msgs[Len(msgs)].role = "assistant"
    THEN SubSeq(msgs, 1, Len(msgs) - 1)
           \o <<[role |-> "assistant", content |-> msgs[Len(msgs)].content \o text]>>
    ELSE msgs \o <<[role |-> "assistant", content |-> text]>>

\* C3: a well-formed frame whose done field is true, "true" or 1 clears pending
\* and cancels the watchdog in every state, and what it leaves behind is a
\* function of the state before and of the other fields of the frame alone, so
\* the three encodings lead to the same state.
C3_DoneNormalization ==
  [][(last'.op = "frame" /\ ~last'.frame.malformed /\ last'.frame.done \in DoneEncodings)
       => /\ ~isLoading'
          /\ loadingTimeoutRef' = 0
          /\ messages' = IF last'.frame.error = "" /\ last'.frame.content # ""
                           THEN Accumulated(messages, last'.frame.content)
                           ELSE messages
          /\ error' = IF last'.frame.error # ""
                        THEN "Server error: " \o last'.frame.error
                        ELSE error
          /\ UNCHANGED <<selectedModel, connectionAttempts, ws, nextSock,
                         reconnectTimeoutRef, backoff, sendTimers>>]_vars

C3_Witness ==
  /\ last.op = "frame" /\ last.frame.done = "str:true" /\ last.frame.error = ""
  /\ turn.sub > 0 /\ turn.done /\ turn.chunks # <<>>
  /\ ~isLoading /\ loadingTimeoutRef = 0

\* C4: once a done or error frame was handled, a delta frame that arrives while
\* the trailing message is that assistant message starts a new assistant
\* message and leaves the finalized one as it is.
C4_FinalizedNotExtended ==
  [][(/\ turn.sub > 0 /\ turn.finalized
      /\ messages # <<>> /\ LastMessage.role = "assistant"
      /\ last'.op = "frame" /\ ~last'.frame.malformed
      /\ last'.frame.error = "" /\ last'.frame.content # "")
       => /\ Len(messages') = Len(messages) + 1
          /\ SubSeq(messages', 1, Len(messages)) = messages]_vars

\* C5: no assistant message holds text generated for two different submissions.
C5_NoCrossTalk ==
  \A i \in 1..Len(origin) : Cardinality(origin[i] \ {0}) <= 1

\* C6: the submit operation called while pending is true is rejected: it
\* appends no message, sends nothing, leaves the watchdog as it is and accepts
\* no submission.
C6_Busy ==
  [][(isLoading /\ last'.op = "submit")
       => /\ ~last'.accepted
          /\ UNCHANGED <<messages, sockets, loadingTimeoutRef, nextSub, isLoading,
                         sendTimers, ws, nextSock>>]_vars

C6_Witness ==
  /\ last.op = "submit" /\ ~last.accepted
  /\ isLoading /\ loadingTimeoutRef # 0
  /\ nUser < MaxUserOps

(* ------------------------ claims: reconnection ------------------------- *)

\* the step was made by the close handler or by the backoff timer: what the
\* client does on its own after a closure
OwnStep == last'.op \in {"close", "backoff"}

\* C7: once the attempts are used up and the 'Connection to server was lost'
\* error is shown, the client opens no connection and arms no retry on its own.
C7_BackoffBound ==
  [][(error = ErrConnectionLost /\ OwnStep)
       => (nextSock' = nextSock /\ backoff' \subseteq backoff)]_vars

\* C8: a reconnection is opened only when its backoff timer fires: the step
\* that handles a closure opens no connection.
C8_BackoffSchedule ==
  [][last'.op = "close" => nextSock' = nextSock]_vars

\* C9: a close event with the normal code arms no reconnection timer, leaves
\* the attempt counter as it is, surfaces no error and opens no connection.
C9_NormalCloseNoRetry ==
  [][(last'.op = "close" /\ last'.code = NORMAL_CLOSURE)
       => UNCHANGED <<backoff, reconnectTimeoutRef, connectionAttempts, error,
                      nextSock, ws>>]_vars

C9_Witness ==
  /\ last.op = "close" /\ last.code = NORMAL_CLOSURE
  /\ connectionAttempts < MAX_RECONNECT_ATTEMPTS
  /\ nextSock >= 2

\* C10: when a model change or the submit path opens a replacement connection,
\* the connection ws.current held before, if it was connecting or open, has
\* been closed by then.
C10_PreviousClosedFirst ==
  [][(/\ last'.op \in {"setModel", "submit"}
      /\ nextSock' > nextSock
      /\ ws # 0 /\ sockets[ws].readyState \in {"CONNECTING", "OPEN"})
       => sockets'[ws].readyState \in {"CLOSING", "CLOSED"}]_vars

(* -------------------------- claims: watchdog --------------------------- *)

\* C11: the watchdog of a submission fires at most once, and as long as the
\* submission is pending, no done or error frame was handled for it and its
\* watchdog has not fired, that watchdog is armed, so that the timeout error
\* is surfaced when LOADING_TIMEOUT has passed.
C11_WatchdogOnce ==
  turn.sub > 0 =>
    /\ turn.timeouts <= 1
    /\ (isLoading /\ ~turn.terminal /\ turn.timeouts = 0)
         => loadingTimeoutRef = turn.sub

\* C12: a done frame handled after the watchdog of its submission has fired
\* leaves pending false and leaves the message list as it is.
C12_LateDoneIgnored ==
  [][(/\ turn.sub > 0 /\ turn.timeouts > 0
      /\ ws # 0 /\ Answering(ws) = turn.sub
      /\ last'.op = "frame" /\ ~last'.frame.malformed
      /\ last'.frame.error = "" /\ last'.frame.done \in DoneEncodings)
       => (~isLoading' /\ messages' = messages)]_vars

\* C13: once a done or error frame was handled for a submission, the timer
\* handle is empty and the watchdog does not fire for it.
C13_WatchdogCanceled ==
  [][(turn'.sub > 0 /\ turn'.terminal)
       => (loadingTimeoutRef' = 0 /\ last'.op # "watchdog")]_vars

C13_Witness ==
  /\ turn.sub > 0 /\ turn.terminal /\ turn.timeouts = 0
  /\ last.op = "frame" /\ last.frame.error # ""
  /\ loadingTimeoutRef = 0 /\ error # ErrTimeout

\* C14: the watchdog that fires is the one of the current submission: it does
\* not fire once a later submission was accepted or the conversation was
\* reset by new chat or clear chat.
C14_NoStaleWatchdog ==
  [][last'.op = "watchdog"
       => (turn.sub > 0 /\ loadingTimeoutRef = turn.sub)]_vars

(* -------------------------- claims: teardown --------------------------- *)

\* C15: the unmount closes the connection and empties the watchdog and
\* reconnect handles, and after it no timer callback opens a connection,
\* sends on one, or changes the messages, pending or the surfaced error.
C15_TeardownQuiet ==
  [][/\ last'.op = "unmount"
          => /\ ws' = 0 /\ loadingTimeoutRef' = 0 /\ reconnectTimeoutRef' = 0
             /\ ws # 0 => sockets'[ws].readyState \in {"CLOSING", "CLOSED"}
     /\ (~mounted /\ last'.op \in {"watchdog", "backoff", "delayedSend"})
          => /\ nextSock' = nextSock
             /\ sockets' = sockets
             /\ UNCHANGED <<messages, isLoading, error>>]_vars

(* -------------------------- claims: dispatch --------------------------- *)

\* the requests received by the backend on the sockets, and the armed delayed
\* sends: what a submission puts on the WebSocket
OnSocket == <<[s \in SockSlots |-> sockets[s].reqs], sendTimers, nextSock, ws>>

\* C16: an accepted submission with an image makes exactly one multimodal
\* request and puts nothing on the WebSocket; an accepted submission without
\* an image is sent on the WebSocket and makes no request. The last message
\* of the request ends with the image part and has a text part before it
\* exactly when the text is not blank.
C16_Dispatch ==
  [][(last'.op = "submit" /\ last'.accepted)
       => IF turn'.image
            THEN /\ OnSocket' = OnSocket
                 /\ \E r \in requests' :
                      /\ r \notin requests
                      /\ requests' = requests \cup {r}
                      /\ r.kind = "multimodal" /\ r.sub = turn'.sub
                      /\ r.parts[Len(r.parts)].type = "image_url"
                      /\ Len(r.parts) = IF \E i \in 1..Len(r.parts) :
                                              /\ r.parts[i].type = "text"
                                              /\ r.parts[i].text = turn'.text
                                         THEN 2 ELSE 1
                      /\ Len(r.parts) = 2
                           <=> turn'.text \notin {"", " "}
            ELSE /\ requests' = requests
                 /\ sockets'[ws].reqs = Append(sockets[ws].reqs, turn'.sub)]_vars

C16_Witness ==
  /\ last.op = "submit" /\ last.accepted /\ turn.image /\ turn.text = " "
  /\ \E r \in requests : r.sub = turn.sub /\ Len(r.parts) = 1
  /\ nextSub = 2

C18_OneShotFailure ==
  [][(last'.op = "response" /\ ~last'.accepted /\ last'.code = turn.sub)
       => /\ error' # NoError
          /\ ~isLoading'
          /\ messages' = SubSeq(turn.base, 1, Len(turn.base) - 1)]_vars

\* C19: when the delayed send of a text submission finds the connection still
\* not open, the submission fails at that moment: an error is surfaced,
\* pending is cleared and the watchdog is canceled.
C19_ConnectionUnavailable ==
  [][(last'.op = "delayedSend" /\ ~last'.accepted)
       => (error' # NoError /\ ~isLoading' /\ loadingTimeoutRef' = 0)]_vars

(* --------------------------- claims: errors ---------------------------- *)

\* C20: a frame with an error field surfaces that error text, cancels the
\* watchdog, clears pending and leaves the message list as it is, whatever
\* else the frame carries.
C20_ErrorFrame ==
  [][(last'.op = "frame" /\ ~last'.frame.malformed /\ last'.frame.error # "")
       => /\ error' = "Server error: " \o last'.frame.error
          /\ loadingTimeoutRef' = 0
          /\ ~isLoading'
          /\ messages' = messages]_vars

C20_Witness ==
  /\ last.op = "frame" /\ last.frame.error = "boom"
  /\ last.frame.content = "He" /\ last.frame.done = "bool:true"
  /\ turn.sub > 0 /\ turn.chunks = <<"He">>
  /\ messages = Append(turn.base, [role |-> "assistant", content |-> "He"])
  /\ error = "Server error: boom" /\ ~isLoading /\ loadingTimeoutRef = 0

(* ---------------------- claims: errors and frames ---------------------- *)

\* the step handled one of the failures of a submission: an abnormal close
\* (with or without its transport error event), a malformed frame, an error
\* frame, a watchdog timeout, or a send that failed (the one-shot request or
\* the delayed send on the WebSocket)
FailureStep ==
  \/ last'.op = "close" /\ last'.code # NORMAL_CLOSURE
  \/ last'.op = "frame" /\ (last'.frame.malformed \/ last'.frame.error # "")
  \/ last'.op = "watchdog"
  \/ last'.op \in {"response", "delayedSend"} /\ ~last'.accepted

\* C21: the handling of an abnormal close, a transport error event, a
\* malformed frame, an error frame, a watchdog timeout or a failed send leaves
\* every message as it is, and after it pending is false and the selected
\* model is the one selected before, so that a new submission is accepted.
C21_ErrorsKeepHistory ==
  [][(mounted /\ FailureStep)
       => /\ messages' = messages
          /\ ~isLoading'
          /\ selectedModel' = selectedModel]_vars

\* the connections as the client and the network see them: which socket is
\* current, how many were created, and the readyState of each
Connections == <<ws, nextSock, [s \in SockSlots |-> sockets[s].readyState]>>

\* C22: a frame that cannot be parsed surfaces the parse-failure error and
\* leaves the connection open; the messages, pending and the armed watchdog
\* are what they were before it.
C22_MalformedFrame ==
  [][(last'.op = "frame" /\ last'.frame.malformed)
       => /\ error' = ErrProcess
          /\ Connections' = Connections
          /\ messages' = messages
          /\ isLoading' = isLoading
          /\ loadingTimeoutRef' = loadingTimeoutRef]_vars

\* the current submission is outstanding: pending, no done or error frame
\* handled for it, its watchdog not fired
Outstanding == turn.sub > 0 /\ isLoading /\ ~turn.terminal /\ turn.timeouts = 0

\* the step handled a frame the handler only reads a text from
DeltaStep ==
  /\ last'.op = "frame" /\ ~last'.frame.malformed /\ last'.frame.error = ""
  /\ last'.frame.content # "" /\ last'.frame.done \notin DoneEncodings

\* the step handled the close event of a socket the client itself had closed
\* with the normal code
ControllerClose ==
  /\ last'.op = "close" /\ last'.code = NORMAL_CLOSURE
  /\ \E s \in SockIds :
       /\ sockets[s].readyState = "CLOSING" /\ sockets[s].code = NORMAL_CLOSURE
       /\ sockets'[s].readyState = "CLOSED"

\* C25: pending becomes true exactly when a submission is accepted, and while
\* the submission is outstanding neither a connection open, nor a delta frame,
\* nor the close event of a connection the client closed with the normal code
\* sets it to false.
C25_PendingLifetime ==
  [][/\ (last'.op = "submit" /\ last'.accepted) => isLoading'
     /\ (~isLoading /\ isLoading') => (last'.op = "submit" /\ last'.accepted)
     /\ (/\ Outstanding
         /\ \/ last'.op = "open"
            \/ DeltaStep
            \/ ControllerClose)
          => isLoading']_vars

\* the step appended the text of the frame to the content of the trailing
\* assistant message and changed nothing else of the list
AppendedToLast ==
  /\ messages # <<>>
  /\ LastMessage.role = "assistant"
  /\ messages' = SubSeq(messages, 1, Len(messages) - 1)
                   \o <<[role |-> "assistant",
                         content |-> LastMessage.content \o last'.frame.content]>>

\* C26: the handling of an inbound frame leaves the message list as it is,
\* or appends one new assistant message, or appends text to the content of a
\* trailing assistant message; it does not replace a content, change an
\* earlier message or a user message, or remove or reorder messages.
C26_TrailingOnly ==
  [][last'.op = "frame"
       => \/ messages' = messages
          \/ \E text \in Chunks :
               messages' = messages \o <<[role |-> "assistant", content |-> text]>>
          \/ AppendedToLast]_vars

(* -------------------------- claims: sessions --------------------------- *)

\* C27: the open of a connection resets the attempt counter to 0 and neither
\* closes nor replaces the connection that opened: that connection is open
\* after the step, it is still the current one, and no connection is created.
C27_OpenResetsAttempts ==
  [][(mounted /\ last'.op = "open")
       => /\ connectionAttempts' = 0
          /\ nextSock' = nextSock
          /\ ws' = ws
          /\ \E s \in SockIds :
               sockets[s].readyState = "CONNECTING" /\ sockets'[s].readyState = "OPEN"]_vars

\* C28: when the controller closes the session with the normal code (model
\* change, new chat, conversation switch, unmount), every scheduled
\* reconnection is canceled: no backoff timer is left that could fire and
\* open a connection.
C28_CloseCancelsRetry ==
  [][last'.op \in {"setModel", "newChat", "selectConversation", "unmount"}
       => backoff' = {}]_vars

(* --------------------------- claims: decoder --------------------------- *)

\* a parsed frame with no error, no status, no message.content and no done
\* marker
Unrecognized(f) ==
  /\ ~f.malformed /\ f.error = "" /\ f.status = "" /\ f.content = ""
  /\ f.done \notin DoneEncodings

\* C23: a parsed frame that carries no error, no status, no message.content
\* and no done marker changes nothing: the messages, pending, the surfaced
\* error, the watchdog and the connections are what they were.
C23_UnrecognizedFrame ==
  [][(last'.op = "frame" /\ Unrecognized(last'.frame))
       => /\ UNCHANGED <<messages, isLoading, error, loadingTimeoutRef>>
          /\ Connections' = Connections]_vars

C23_Witness ==
  /\ last.op = "frame" /\ Unrecognized(last.frame) /\ last.frame.done = "bool:false"
  /\ turn.sub > 0 /\ turn.chunks = <<"He">>
  /\ isLoading /\ loadingTimeoutRef = turn.sub /\ error = NoError
  /\ sockets[ws].readyState = "OPEN"

\* C24: a frame that carries a status field (and no error) is a status update:
\* it appends no text to the conversation even when it also carries
\* message.content, and it changes neither pending nor the watchdog.
C24_DecoderPrecedence ==
  [][(/\ last'.op = "frame" /\ ~last'.frame.malformed
      /\ last'.frame.error = "" /\ last'.frame.status # "")
       => UNCHANGED <<messages, isLoading, loadingTimeoutRef>>]_vars

(* ------------------------ claims: conversation ------------------------- *)

\* the operations that give the component another conversation: clear chat,
\* the continuation of new chat, and the selection of a conversation
IdentityStep ==
  \/ last'.op \in {"clearChat", "selectConversation"}
  \/ last'.op = "newChatDone" /\ last'.accepted

C30_NoModelNoSession ==
  [][mounted
       => /\ selectedModel' = "" => nextSock' = nextSock
          /\ (selectedModel = "" /\ last'.op = "submit")
               => /\ error' = ErrSelectModel
                  /\ UNCHANGED <<messages, isLoading, loadingTimeoutRef>>
          /\ (last'.op = "setModel" /\ selectedModel' = "" /\ ws # 0)
               => sockets'[ws].readyState \in {"CLOSING", "CLOSED"}]_vars

(* ------------------------- claims: connections ------------------------- *)

\* the WebSockets the component created that are connecting or open
Live == {s \in SockSlots : sockets[s].readyState \in {"CONNECTING", "OPEN"}}

\* C31: at most one WebSocket the component created is connecting or open.
C31_OneLiveConnection == Cardinality(Live) <= 1

\* C33: when pending is false no watchdog is armed.
C33_WatchdogOnlyWhilePending == ~isLoading => loadingTimeoutRef = 0

(* ------------------------- claims: submissions ------------------------- *)

\* C34: an accepted submission appends exactly one user message at the end
\* of the message list; the request sent on the WebSocket, at once or after
\* the 1000 ms delay, carries the selected model, the current conversation
\* id and, as its messages, the messages of the conversation in order with
\* the new user message last.
C34_SubmissionPayload ==
  [][/\ (last'.op = "submit" /\ last'.accepted)
          => /\ Len(messages') = Len(messages) + 1
             /\ SubSeq(messages', 1, Len(messages)) = messages
             /\ messages'[Len(messages')].role = "user"
             /\ messages'[Len(messages')].content
                  = IF turn'.image THEN turn'.text \o " [Image attached]" ELSE turn'.text
     /\ (last'.op \in {"submit", "delayedSend"} /\ last'.payload # NoPayload)
          => /\ last'.payload.model = selectedModel'
             /\ last'.payload.conversation_id = conversationId'
             /\ last'.payload.messages = messages'
             /\ messages'[Len(messages')].role = "user"]_vars

\* C35: a submission whose text is blank and that has no image changes
\* nothing: it is not accepted, the messages, pending, the surfaced error,
\* the watchdog and the connections are what they were, and nothing is sent.
C35_BlankSubmission ==
  [][(/\ last'.op = "submit"
      /\ Trim(last'.input.text) = <<>> /\ last'.input.image = NoImage)
       => /\ ~last'.accepted
          /\ last'.payload = NoPayload
          /\ UNCHANGED <<messages, isLoading, error, loadingTimeoutRef, ws, sockets,
                         nextSock, sendTimers, requests, nextSub>>]_vars

C35_Witness ==
  /\ last.op = "submit" /\ ~last.accepted
  /\ last.input = Input(<<" ">>, NoImage)
  /\ ~isLoading /\ selectedModel = "m1"
  /\ Len(messages) = 2 /\ nUser < MaxUserOps

\* C37: a request in flight that was not canceled has its token in the
\* cancel-token map, so that a later start under its request id or
\* cancelAllRequests cancels it; in particular the completion of a superseded
\* request leaves the token of the request that superseded it in the map
C37_RegistryConsistent ==
  CancelTokens(requests) = {r \in requests : ~r.canceled}

\* no request for a history or for a new conversation is in flight
HistoryIdle ==
  \A r \in requests : r.kind \notin {"loadHistory", "selectConversation", "newChat"}

\* the step is the continuation of a history request r that resolved
HistoryResponse(r) ==
  /\ r \in requests
  /\ r.kind \in {"loadHistory", "selectConversation"}
  /\ \A q \in requests' : <<q.kind, q.id>> # <<r.kind, r.id>>
  /\ last'.op \in {"loadHistoryDone", "selectConversationDone"}
  /\ last'.accepted

\* C36: when the last history or create request has resolved and the user
\* has submitted nothing in the current conversation, the messages are the
\* history of the current conversation
C36_Settled ==
  (/\ HistoryIdle
   /\ last.op = "loadHistoryDone" /\ last.accepted /\ last.code = conversationId
   /\ (turn.sub = 0 \/ turn.conv # conversationId))
    => messages = History(conversationId)

\* C36: a history response for a conversation that is no longer current
\* leaves the messages as they are, and a history response leaves in the list
\* the message the user submitted after the fetch started
C36_Responses ==
  [][\A r \in requests :
       HistoryResponse(r)
         => /\ r.conv # conversationId => messages' = messages
            /\ (turn.sub > 0 /\ turn.op > r.id)
                 => \E i \in 1..Len(messages') :
                      messages'[i] = turn.base[Len(turn.base)]]_vars

\* C36: the displayed history matches the selected conversation
C36_HistoryMatchesConversation == []C36_Settled /\ C36_Responses

\* the emoji of a list, as a set
EmojiSet(list) == {list[i] : i \in 1..Len(list)}

\* the number of occurrences of emoji in a list
Occurrences(list, emoji) == Cardinality({i \in 1..Len(list) : list[i] = emoji})

\* role, content and id of a message, and whether it has an id
Core(m) ==
  <<m.role, m.content, "id" \in DOMAIN m, IF "id" \in DOMAIN m THEN m.id ELSE 0>>

\* the messages without their reactions
Cores(msgs) == [i \in 1..Len(msgs) |-> Core(msgs[i])]

\* C39: addReaction is idempotent and adds no second occurrence of an emoji;
\* removeReaction removes every occurrence and is idempotent; toggleReaction,
\* and handleToggleReaction, applied twice with one emoji give back the set
\* of reactions; none of them changes role, content or id of a message; and
\* a streamed frame changes the contents as it does for messages with no
\* reactions, and changes no reaction
C39_Reactions ==
  [][LET i == last'.code
         emoji == last'.frame.content
     IN /\ last'.op = "addReaction"
             => /\ Occurrences(Reactions(messages'[i]), emoji)
                     = IF Includes(Reactions(messages[i]), emoji)
                         THEN Occurrences(Reactions(messages[i]), emoji) ELSE 1
                /\ addReaction(messages'[i], emoji) = messages'[i]
        /\ last'.op = "removeReaction"
             => /\ ~Includes(Reactions(messages'[i]), emoji)
                /\ removeReaction(messages'[i], emoji) = messages'[i]
        /\ last'.op = "toggleReaction"
             => EmojiSet(Reactions(toggleReaction(messages'[i], emoji)))
                  = EmojiSet(Reactions(messages[i]))
        /\ last'.op = "handleToggleReaction"
             => EmojiSet(Reactions(handleToggleReaction(messages', i, emoji)[i]))
                  = EmojiSet(Reactions(messages[i]))
        /\ last'.op \in {"addReaction", "removeReaction", "toggleReaction",
                          "handleToggleReaction"}
             => /\ Cores(messages') = Cores(messages)
                /\ \A j \in 1..Len(messages) :
                     /\ j # i => messages'[j] = messages[j]
                     /\ \A e \in Emojis \ {emoji} :
                          Occurrences(Reactions(messages'[j]), e)
                            = Occurrences(Reactions(messages[j]), e)
        /\ last'.op = "frame"
             => /\ [j \in 1..Len(messages') |-> <<messages'[j].role, messages'[j].content>>]
                     = [j \in 1..Len(messages) + (Len(messages') - Len(messages)) |->
                          LET after == MessagesAfterFrame(
                                         [k \in 1..Len(messages) |->
                                            [role |-> messages[k].role,
                                             content |-> messages[k].content]],
                                         last'.frame)
                          IN <<after[j].role, after[j].content>>]
                /\ \A j \in 1..Len(messages) :
                     Reactions(messages'[j]) = Reactions(messages[j])]_vars

\* the answer streamed into a message that has reactions, and removeReaction
\* then took one of its two emoji away
C39_Witness ==
  /\ last.op = "removeReaction" /\ last.frame.content = "thumbsup"
  /\ Len(messages) = 1
  /\ messages[1].content = "Hello"
  /\ Reactions(messages[1]) = <<"heart">>
  /\ nFrames = 1

\* the step is the connection timeout of socket s firing
TimeoutStep(s) == last'.op = "connectionTimeout" /\ last'.code = s /\ sockets[s].timer

\* C38: the connection timeout closes a socket that is still connecting and
\* changes nothing of a socket that is closing or closed; it is disarmed when
\* the socket opens and never armed again, so that it never fires on, and
\* never closes, a socket that has opened
C38_ConnectionTimeout ==
  [][\A s \in SockSlots :
       /\ TimeoutStep(s)
            => /\ sockets[s].readyState # "OPEN"
               /\ sockets[s].readyState = "CONNECTING"
                    => /\ sockets'[s].readyState = "CLOSING"
                       /\ sockets'[s].code = ABNORMAL_CLOSURE
               /\ sockets[s].readyState # "CONNECTING"
                    => sockets'[s] = [sockets[s] EXCEPT !.timer = FALSE]
               /\ \A o \in SockSlots \ {s} : sockets'[o] = sockets[o]
       /\ sockets'[s].readyState = "OPEN" => ~sockets'[s].timer
       /\ sockets'[s].timer => sockets[s].timer \/ sockets[s].readyState = "NONE"]_vars

\* the timeout has closed socket 2, still connecting, while socket 1, which
\* opened in time, stays open
C38_Witness ==
  /\ last.op = "connectionTimeout" /\ last.code = 2
  /\ sockets[2].readyState = "CLOSING" /\ sockets[2].code = ABNORMAL_CLOSURE
  /\ sockets[1].readyState = "OPEN" /\ ~sockets[1].timer

\* the run has created so many sockets that the bound MaxPendingSockets keeps
\* a timer or a close event, which create at most one, from creating another
SocketsExhausted == nextSock >= MaxPendingSockets

====
